---- MODULE Spec2Model ----
(***************************************************************************)
(* A model of the CBForest C API façade (percula/cbl):                     *)
(*   src/C/c4Database.cc   - nested transactions, raw documents,           *)
(*                           document count                                *)
(*   src/unnamed/part_000  - c4ExpiryEnumerator                            *)
(* The key-value engine (Database, Transaction, KeyStore, DocEnumerator,   *)
(* Collatable) is not part of these sources; it is modelled by its         *)
(* contract.                                                               *)
(***************************************************************************)
EXTENDS Integers, Sequences, FiniteSets, TLC

----------------------------------------------------------------------------
(* Bounds *)

\* deepest transaction nesting explored
MaxLevel == 2

----------------------------------------------------------------------------
(* Slices and stores *)

\* forestdb::slice: buf is "the pointer is non-null", data the bytes
NullSlice == [buf |-> FALSE, data |-> <<>>]

EmptySlice == [buf |-> TRUE, data |-> <<>>]

Bytes(s) == [buf |-> TRUE, data |-> s]

\* memcmp order on byte strings: -1, 0, 1
RECURSIVE Compare(_, _)
Compare(a, b) ==
    IF a = <<>> /\ b = <<>> THEN 0
    ELSE IF a = <<>> THEN -1
    ELSE IF b = <<>> THEN 1
    ELSE IF Head(a) < Head(b) THEN -1
    ELSE IF Head(a) > Head(b) THEN 1
    ELSE Compare(Tail(a), Tail(b))

\* a KeyStore is a function from the keys it holds to (meta, body)
EmptyStore == [k \in {} |-> [meta |-> <<>>, body |-> <<>>]]

\* KeyStoreWriter::set
StoreSet(s, key, meta, body) ==
    [k \in (DOMAIN s) \cup {key} |->
        IF k = key THEN [meta |-> meta, body |-> body] ELSE s[k]]

\* KeyStoreWriter::del
StoreDel(s, key) == [k \in (DOMAIN s) \ {key} |-> s[k]]

\* the named stores of one database file
StoreNames == {"default", "raw", "expiry"}

EmptyStores == [n \in StoreNames |-> EmptyStore]

----------------------------------------------------------------------------
(* struct c4Database *)

\* _transaction == NULL
NoTransaction == [ptr |-> FALSE, aborted |-> FALSE, pending |-> EmptyStores]

\* new Transaction(_db): the writes of the transaction are staged on a copy
NewTransaction(stores) == [ptr |-> TRUE, aborted |-> FALSE, pending |-> stores]

\* c4Database(): _transaction(NULL), _transactionLevel(0)
NewDatabase == [transactionLevel |-> 0,
                transaction |-> NoTransaction,
                stores |-> EmptyStores]

\* c4Database::inTransaction
inTransaction(d) == d.transactionLevel > 0

\* what a read through the database handle sees: the open transaction's
\* staged state, else the committed state
Visible(d) == IF d.transaction.ptr THEN d.transaction.pending ELSE d.stores

\* c4Database::beginTransaction; newFails: new Transaction(_db) throws.
\* status is "ok" or "threw".
beginTransaction(d, newFails) ==
    LET lvl == d.transactionLevel + 1
        d1  == [d EXCEPT !.transactionLevel = lvl]
    IN  IF lvl = 1
        THEN IF newFails
             THEN [db |-> d1, status |-> "threw"]
             ELSE [db |-> [d1 EXCEPT !.transaction = NewTransaction(d.stores)],
                   status |-> "ok"]
        ELSE [db |-> d1, status |-> "ok"]

\* delete t: ~Transaction commits unless aborted; commitFails: the commit throws
DeleteTransaction(d, t, commitFails) ==
    IF ~t.ptr \/ t.aborted THEN [db |-> d, status |-> "ok"]
    ELSE IF commitFails THEN [db |-> d, status |-> "threw"]
    ELSE [db |-> [d EXCEPT !.stores = t.pending], status |-> "ok"]

\* endTransaction without "if (!commit) t->abort()"
endTransaction_NeverAborts(d, commit, commitFails) ==
    IF ~(d.transactionLevel > 0) THEN [db |-> d, status |-> "crash"]
    ELSE LET lvl == d.transactionLevel - 1
             d1  == [d EXCEPT !.transactionLevel = lvl]
         IN  IF lvl = 0
             THEN DeleteTransaction([d1 EXCEPT !.transaction = NoTransaction],
                                    d.transaction, commitFails)
             ELSE [db |-> d1, status |-> "ok"]

\* c4Database::endTransaction; status is "ok", "threw" or "crash"
\* (a failed assert, or t->abort() through a null pointer)
endTransaction(d, commit, commitFails) ==
    IF ~(d.transactionLevel > 0) THEN [db |-> d, status |-> "crash"]
    ELSE LET lvl == d.transactionLevel - 1
             d1  == [d EXCEPT !.transactionLevel = lvl]
         IN  IF lvl = 0
             THEN LET t  == d.transaction
                      d2 == [d1 EXCEPT !.transaction = NoTransaction]
                  IN  IF ~commit
                      THEN IF ~t.ptr
                           THEN [db |-> d2, status |-> "crash"]
                           ELSE DeleteTransaction(d2, [t EXCEPT !.aborted = TRUE],
                                                  commitFails)
                      ELSE DeleteTransaction(d2, t, commitFails)
             ELSE [db |-> d1, status |-> "ok"]

\* c4db_beginTransaction: catchError turns a throw into "return false"
c4db_beginTransaction(d, newFails) ==
    LET r == beginTransaction(d, newFails)
    IN  [db |-> r.db, status |-> r.status, ret |-> (r.status = "ok")]

\* c4db_endTransaction
c4db_endTransaction(d, commit, commitFails) ==
    LET r == endTransaction(d, commit, commitFails)
    IN  [db |-> r.db, status |-> r.status, ret |-> (r.status = "ok")]

----------------------------------------------------------------------------
(* Raw documents *)

\* Document::exists after KeyStore::get
Exists(store, key) == key \in DOMAIN store

\* c4raw_get: NotFound (found = FALSE) or copies of key, meta and body
c4raw_get(d, storeName, key) ==
    LET localDocs == Visible(d)[storeName]
    IN  IF ~Exists(localDocs, key)
        THEN [found |-> FALSE, key |-> <<>>, meta |-> <<>>, body |-> <<>>]
        ELSE [found |-> TRUE, key |-> key,
              meta |-> localDocs[key].meta, body |-> localDocs[key].body]

\* the places where c4raw_put can meet an exception
PutFailures == {"none", "begin", "keystore", "write", "commit"}

\* the test of c4raw_put that chooses between set and del
PutSets(meta, body) == body.buf \/ meta.buf

\* the write of c4raw_put on the transaction's writer
PutWrite(d, storeName, key, meta, body) ==
    LET s == d.transaction.pending[storeName]
        w == IF PutSets(meta, body)
             THEN StoreSet(s, key, meta.data, body.data)
             ELSE StoreDel(s, key)
    IN  [d EXCEPT !.transaction.pending[storeName] = w]

\* c4raw_put. status: "ok" no exception, "caught" an exception reached
\* catchError, "crash" an assert failed. ended: the commit flag of the
\* endTransaction call it made ("none" when it made none).
c4raw_put(d, storeName, key, meta, body, fail) ==
    LET b == beginTransaction(d, fail = "begin")
    IN  IF b.status = "threw"
        THEN [db |-> b.db, status |-> "caught", ret |-> FALSE, ended |-> "none"]
        ELSE IF fail = "keystore"
        THEN LET e == endTransaction(b.db, FALSE, FALSE)
             IN  [db |-> e.db,
                  status |-> IF e.status = "crash" THEN "crash" ELSE "caught",
                  ret |-> FALSE, ended |-> "abort"]
        ELSE IF ~b.db.transaction.ptr
        THEN [db |-> b.db, status |-> "crash", ret |-> FALSE, ended |-> "none"]
        ELSE IF fail = "write"
        THEN LET e == endTransaction(b.db, FALSE, FALSE)
             IN  [db |-> e.db,
                  status |-> IF e.status = "crash" THEN "crash" ELSE "caught",
                  ret |-> FALSE, ended |-> "abort"]
        ELSE LET w == PutWrite(b.db, storeName, key, meta, body)
                 e == endTransaction(w, TRUE, fail = "commit")
             IN  [db |-> e.db,
                  status |-> IF e.status = "threw" THEN "caught" ELSE e.status,
                  ret |-> FALSE, ended |-> "commit"]

----------------------------------------------------------------------------
(* Collatable keys of the "expiry" store *)

\* Collatable tags
kEndSequence == 0

kPositive == 5

kString == 6

kArray == 7

kMap == 8

\* CollatableBuilder << double (timestamps are not negative); the eight
\* big-endian bytes of the number are one element, which keeps their order
AddNumber(n) == <<kPositive, n>>

\* CollatableBuilder << slice: the characters and a terminator
AddString(str) == <<kString>> \o str \o <<kEndSequence>>

\* the forward key of an expiry record: array [timestamp, docID]
ExpiryKey(timestamp, docID) ==
    <<kArray>> \o AddNumber(timestamp) \o AddString(docID) \o <<kEndSequence>>

\* the reverse key of an expiry record: the raw docID
ReverseKey(docID) == docID

\* the end key without beginMap/endMap: array [_endTimestamp]
EndKey_NoMap(endTimestamp) ==
    <<kArray>> \o AddNumber(endTimestamp) \o <<kEndSequence>>

\* the key C4ExpiryEnumerator::reset builds: array [_endTimestamp, {}]
EndKey(endTimestamp) ==
    <<kArray>> \o AddNumber(endTimestamp) \o <<kMap, kEndSequence>>
        \o <<kEndSequence>>

\* CollatableReader::skipTag
skipTag(r) == IF r = <<>> THEN r ELSE Tail(r)

\* CollatableReader::readInt: the number and the rest; ok = FALSE: it throws
readInt(r) ==
    IF Len(r) >= 2 /\ r[1] = kPositive
    THEN [ok |-> TRUE, val |-> r[2], rest |-> SubSeq(r, 3, Len(r))]
    ELSE [ok |-> FALSE, val |-> 0, rest |-> r]

\* the characters of r up to the terminator
RECURSIVE UpToEnd(_)
UpToEnd(r) ==
    IF r = <<>> \/ Head(r) = kEndSequence THEN <<>>
    ELSE <<Head(r)>> \o UpToEnd(Tail(r))

\* CollatableReader::readString: ok = FALSE: it throws
readString(r) ==
    IF r # <<>> /\ r[1] = kString /\ kEndSequence \in {r[i] : i \in 2..Len(r)}
    THEN [ok |-> TRUE, val |-> UpToEnd(Tail(r))]
    ELSE [ok |-> FALSE, val |-> <<>>]

\* keys in ascending memcmp order
RECURSIVE SortKeys(_)
SortKeys(S) ==
    IF S = {} THEN <<>>
    ELSE LET m == CHOOSE k \in S : \A j \in S : Compare(k, j) <= 0
         IN  <<m>> \o SortKeys(S \ {m})

\* DocEnumerator(store, startKey = null, endKey) with the default options
\* (ascending, inclusive end): a snapshot of the keys in range, and the
\* key of the current document
DocEnumerator(store, endKey) ==
    [keys |-> SortKeys({k \in DOMAIN store :
                           ~endKey.buf \/ Compare(k, endKey.data) <= 0}),
     doc |-> <<>>]

----------------------------------------------------------------------------
(* struct C4ExpiryEnumerator *)

ExpiryStore == "expiry"

\* no enumerator allocated
NoEnumerator == [open |-> FALSE, endTimestamp |-> 0,
                 e |-> [keys |-> <<>>, doc |-> <<>>], current |-> <<>>]

\* reset that leaves out the end key, as the constructor's initializer does
reset_NoEndKey(x, d) ==
    [x EXCEPT !.e = DocEnumerator(Visible(d)[ExpiryStore], NullSlice)]

\* C4ExpiryEnumerator::reset
reset(x, d) ==
    [x EXCEPT !.e = DocEnumerator(Visible(d)[ExpiryStore],
                                  Bytes(EndKey(x.endTimestamp)))]

\* C4ExpiryEnumerator::C4ExpiryEnumerator; t is time(NULL)
NewExpiryEnumerator(d, t) ==
    reset([open |-> TRUE, endTimestamp |-> t,
           e |-> DocEnumerator(Visible(d)[ExpiryStore], NullSlice),
           current |-> <<>>], d)

\* C4ExpiryEnumerator::next. status "threw": the reader met a key that is
\* not [number, string]
next(x) ==
    IF x.e.keys = <<>>
    THEN [exp |-> x, ret |-> FALSE, status |-> "ok"]
    ELSE LET key == Head(x.e.keys)
             x1  == [x EXCEPT !.e = [keys |-> Tail(x.e.keys), doc |-> key]]
             n   == readInt(skipTag(key))
             str == readString(n.rest)
         IN  IF n.ok /\ str.ok
             THEN [exp |-> [x1 EXCEPT !.current = str.val],
                   ret |-> TRUE, status |-> "ok"]
             ELSE [exp |-> x1, ret |-> FALSE, status |-> "threw"]

\* C4ExpiryEnumerator::docID
docID(x) == x.current

\* C4ExpiryEnumerator::key
key(x) == x.e.doc

\* c4exp_next: catchError turns a throw into "return false"
c4exp_next(x) == next(x)

\* the loop of c4exp_purgeExpired: while (e->next()) delete key and docID
\* on the writer; the exception of step failAt (counted from 0) ends it.
\* yielded: the (docID, key) pairs next() exposed.
RECURSIVE PurgeLoop(_, _, _, _, _)
PurgeLoop(d, x, failAt, step, yielded) ==
    IF step = failAt
    THEN [db |-> d, exp |-> x, status |-> "threw", yielded |-> yielded]
    ELSE LET n == next(x)
         IN  IF n.status = "threw"
             THEN [db |-> d, exp |-> n.exp, status |-> "threw", yielded |-> yielded]
             ELSE IF ~n.ret
             THEN [db |-> d, exp |-> n.exp, status |-> "ok", yielded |-> yielded]
             ELSE LET s  == d.transaction.pending[ExpiryStore]
                      s1 == StoreDel(StoreDel(s, key(n.exp)), docID(n.exp))
                      d1 == [d EXCEPT !.transaction.pending[ExpiryStore] = s1]
                  IN  PurgeLoop(d1, n.exp, failAt, step + 1,
                                Append(yielded, [docID |-> docID(n.exp),
                                                 key |-> key(n.exp)]))

\* the places where c4exp_purgeExpired can meet an exception
PurgeFailures == {"none", "begin", "reset", "loop", "commit"}

\* c4exp_purgeExpired. status: "ok", "caught" (an exception reached its
\* catchError) or "crash". failAt: the step of the loop that throws when
\* fail = "loop". raised: some step raised an exception.
c4exp_purgeExpired(d, x, fail, failAt) ==
    LET b == c4db_beginTransaction(d, fail = "begin")
    IN  IF fail = "reset"
        THEN LET e == c4db_endTransaction(b.db, FALSE, FALSE)
             IN  [db |-> e.db, exp |-> x, ret |-> FALSE, raised |-> TRUE,
                  status |-> IF e.status = "crash" THEN "crash" ELSE "caught",
                  yielded |-> <<>>, closed |-> "abort"]
        ELSE IF ~b.db.transaction.ptr
        THEN [db |-> b.db, exp |-> reset(x, b.db), ret |-> FALSE,
              raised |-> (b.status = "threw"), status |-> "crash",
              yielded |-> <<>>, closed |-> "none"]
        ELSE LET l == PurgeLoop(b.db, reset(x, b.db),
                                IF fail = "loop" THEN failAt ELSE -1, 0, <<>>)
             IN  IF l.status = "threw"
                 THEN LET e == c4db_endTransaction(l.db, FALSE, FALSE)
                      IN  [db |-> e.db, exp |-> l.exp, ret |-> FALSE,
                           raised |-> TRUE,
                           status |-> IF e.status = "crash" THEN "crash"
                                      ELSE "caught",
                           yielded |-> l.yielded, closed |-> "abort"]
                 ELSE LET e == c4db_endTransaction(l.db, TRUE, fail = "commit")
                      IN  [db |-> e.db, exp |-> l.exp, ret |-> TRUE,
                           raised |-> (e.status = "threw"),
                           status |-> IF e.status = "crash" THEN "crash" ELSE "ok",
                           yielded |-> l.yielded, closed |-> "commit"]

\* c4doc_setExpiration in a transaction of its own: replaces the document's
\* forward key and records the timestamp under the reverse key
SetExpirationWrite(stores, doc, timestamp) ==
    LET s   == stores[ExpiryStore]
        s0  == IF ReverseKey(doc) \in DOMAIN s
               THEN StoreDel(s, ExpiryKey(s[ReverseKey(doc)].body[1], doc))
               ELSE s
        s1  == StoreSet(s0, ExpiryKey(timestamp, doc), <<>>, <<>>)
        s2  == StoreSet(s1, ReverseKey(doc), <<>>, <<timestamp>>)
    IN  [stores EXCEPT ![ExpiryStore] = s2]

----------------------------------------------------------------------------
(* Revision trees (VersionedDocument) *)

\* the generations and the digests of the revision IDs ("1-aa", "2-aa")
Generations == {1, 2}

Digests == {1}

\* the document IDs ("a", "b")
DocIDs == {<<97>>, <<98>>}

DefaultStore == "default"

\* a null revision ID / no Revision
NoRev == [gen |-> 0, digest |-> 0]

RevIDs == [gen : Generations, digest : Digests]

\* a Revision of the tree: revID, parent (NoRev for a root), Deleted flag
NewRevision(revID, parent, deleted) ==
    [revID |-> revID, parent |-> parent, deleted |-> deleted]

\* RevTree::get(revid)
HasRev(revs, revID) == \E r \in revs : r.revID = revID

GetRev(revs, revID) == CHOOSE r \in revs : r.revID = revID

\* Revision::isLeaf
isLeaf(revs, revID) == ~\E r \in revs : r.parent = revID

Leaves(revs) == {r \in revs : isLeaf(revs, r.revID)}

\* the order of the winner: not deleted before deleted, then the higher
\* generation, then the larger digest
Wins(a, b) ==
    \/ ~a.deleted /\ b.deleted
    \/ /\ a.deleted = b.deleted
       /\ \/ a.revID.gen > b.revID.gen
          \/ a.revID.gen = b.revID.gen /\ a.revID.digest > b.revID.digest

\* RevTree::currentRevision: the revID of the winner, NoRev in an empty tree
currentRevision(revs) ==
    IF revs = {} THEN NoRev
    ELSE (CHOOSE l \in Leaves(revs) :
             \A m \in Leaves(revs) : m = l \/ Wins(l, m)).revID

\* RevTree::hasConflict
hasConflict(revs) == Cardinality({l \in Leaves(revs) : ~l.deleted}) > 1

\* VersionedDocument::insert with the parent given as a revision of the
\* tree or NoRev. rev: the revision inserted or found (NoRev: none);
\* httpStatus as the rules give it.
insert(revs, revID, deleted, parent, allowConflict) ==
    IF HasRev(revs, revID)
    THEN [revs |-> revs, rev |-> revID, httpStatus |-> 200]
    ELSE IF parent = NoRev /\ revs # {}
            /\ ~GetRev(revs, currentRevision(revs)).deleted /\ ~allowConflict
    THEN [revs |-> revs, rev |-> NoRev, httpStatus |-> 409]
    ELSE IF parent # NoRev /\ ~isLeaf(revs, parent) /\ ~allowConflict
    THEN [revs |-> revs, rev |-> NoRev, httpStatus |-> 409]
    ELSE IF parent.gen + 1 # revID.gen
    THEN [revs |-> revs, rev |-> NoRev, httpStatus |-> 400]
    ELSE [revs |-> revs \cup {NewRevision(revID, parent, deleted)},
          rev |-> revID, httpStatus |-> 201]

\* the first index of the history (from 1) whose revision is in the tree,
\* Len + 1 when none is
RECURSIVE FirstKnown(_, _, _)
FirstKnown(revs, history, i) ==
    IF i > Len(history) THEN i
    ELSE IF HasRev(revs, history[i]) THEN i
    ELSE FirstKnown(revs, history, i + 1)

\* VersionedDocument::insertHistory, history from newest to oldest.
\* commonAncestor: index from 0 of the first known revision, the length
\* when none is known, -1 when the generations do not decrease.
insertHistory(revs, history, deleted) ==
    IF \E i \in 1..(Len(history) - 1) : history[i].gen <= history[i + 1].gen
    THEN [revs |-> revs, commonAncestor |-> -1]
    ELSE LET a == FirstKnown(revs, history, 1)
         IN  [revs |-> revs \cup
                  {NewRevision(history[i],
                               IF i = Len(history) THEN NoRev ELSE history[i + 1],
                               (i = 1) /\ deleted) : i \in 1..(a - 1)},
              commonAncestor |-> a - 1]

\* the number of revisions from r up to its n-th ancestor's child: the
\* distance from r to the ancestor `revID`, 0 when revID is not an ancestor
RECURSIVE Distance(_, _, _)
Distance(revs, r, revID) ==
    IF r.revID = revID THEN 1
    ELSE IF r.parent = NoRev \/ ~HasRev(revs, r.parent) THEN 0
    ELSE LET n == Distance(revs, GetRev(revs, r.parent), revID)
         IN  IF n = 0 THEN 0 ELSE n + 1

\* depth of a revision: 1 for a leaf, else 1 + the distance to the nearest leaf
Depth(revs, revID) ==
    LET ds == {Distance(revs, l, revID) : l \in Leaves(revs)} \ {0}
    IN  CHOOSE n \in ds : \A m \in ds : n <= m

\* the nearest ancestor that is kept, NoRev when none is
RECURSIVE KeptAncestor(_, _, _)
KeptAncestor(revs, kept, parent) ==
    IF parent = NoRev \/ ~HasRev(revs, parent) THEN NoRev
    ELSE IF parent \in kept THEN parent
    ELSE KeptAncestor(revs, kept, GetRev(revs, parent).parent)

\* RevTree::prune(maxDepth): removes the revisions deeper than maxDepth
\* below every leaf and re-parents the survivors; 0 prunes nothing
prune(revs, maxDepth) ==
    IF maxDepth = 0 THEN revs
    ELSE LET kept == {r.revID : r \in {q \in revs : Depth(revs, q.revID) <= maxDepth}}
         IN  {[r EXCEPT !.parent = KeptAncestor(revs, kept, r.parent)] :
                  r \in {q \in revs : q.revID \in kept}}

\* the record VersionedDocument::save writes: flags and the encoded tree
DocRecord(revs) ==
    [meta |-> [deleted |-> (revs # {} /\ GetRev(revs, currentRevision(revs)).deleted),
               conflicted |-> hasConflict(revs),
               revs |-> revs],
     body |-> <<>>]

----------------------------------------------------------------------------
(* struct C4DocumentInternal and the document calls *)

\* C4Error: nothing recorded, recordHTTPError, recordError
NoError == [domain |-> "none", code |-> 0]

HTTPError(httpStatus) == [domain |-> "HTTP", code |-> httpStatus]

ForestDBError(status) == [domain |-> "ForestDB", code |-> status]

\* the public selectedRev of a C4Document with no revision selected: null
\* revID, no flags, sequence 0, null body. `new` stands for the flag New and
\* for the sequence, which is 0 exactly while the revision is New.
NoSelection == [revID |-> NoRev, deleted |-> FALSE, leaf |-> FALSE, new |-> FALSE,
                body |-> "null"]

\* no document handle allocated. selectedRev is the cursor _selectedRev,
\* exposed the public selectedRev; news are the revisions not yet saved,
\* inline those whose body is held with the tree.
NoDocument == [open |-> FALSE, docID |-> <<>>, revs |-> {}, exists |-> FALSE,
               deleted |-> FALSE, conflicted |-> FALSE, changed |-> FALSE,
               revID |-> NoRev, selectedRev |-> NoRev, docType |-> <<>>,
               news |-> {}, inline |-> {}, exposed |-> NoSelection]

\* selectRevision that moves the cursor and leaves the public copy stale
selectRevision_NoCopy(doc, rev) == [doc EXCEPT !.selectedRev = rev]

\* C4DocumentInternal::selectRevision: sets the cursor and copies the
\* revision's revID, flags, sequence and inline body to the public selectedRev
selectRevision(doc, rev) ==
    IF rev # NoRev
    THEN [doc EXCEPT !.selectedRev = rev,
                     !.exposed = [revID |-> rev,
                                  deleted |-> GetRev(doc.revs, rev).deleted,
                                  leaf |-> isLeaf(doc.revs, rev),
                                  new |-> rev \in doc.news,
                                  body |-> IF rev \in doc.inline THEN "inline"
                                           ELSE "null"]]
    ELSE [doc EXCEPT !.selectedRev = NoRev, !.exposed = NoSelection]

\* updateMeta that does not take the flags of the versioned document
updateMeta_KeepsFlags(doc) ==
    [doc EXCEPT !.exists = TRUE, !.revID = currentRevision(doc.revs)]

\* C4DocumentInternal::updateMeta
updateMeta(doc) ==
    [doc EXCEPT !.deleted = DocRecord(doc.revs).meta.deleted,
                !.conflicted = DocRecord(doc.revs).meta.conflicted,
                !.exists = TRUE,
                !.revID = currentRevision(doc.revs)]

\* c4doc_get with mustExist = false: C4DocumentInternal(database, docID), init()
c4doc_get(d, id) ==
    LET s == Visible(d)[DefaultStore]
        found == id \in DOMAIN s
        revs == IF found THEN s[id].meta.revs ELSE {}
    IN  selectRevision(
            [open |-> TRUE, docID |-> id, revs |-> revs, exists |-> found,
             deleted |-> (found /\ s[id].meta.deleted),
             conflicted |-> (found /\ s[id].meta.conflicted),
             changed |-> FALSE,
             revID |-> currentRevision(revs), selectedRev |-> NoRev,
             docType |-> <<>>,
             news |-> {}, inline |-> {currentRevision(revs)} \ {NoRev},
             exposed |-> NoSelection],
            currentRevision(revs))

\* c4doc_selectRevision without body: a null revID selects none and returns
\* true, an unknown one selects none and returns false
c4doc_selectRevision(doc, revID) ==
    IF revID # NoRev
    THEN IF HasRev(doc.revs, revID)
         THEN [doc |-> selectRevision(doc, revID), ret |-> TRUE]
         ELSE [doc |-> selectRevision(doc, NoRev), ret |-> FALSE]
    ELSE [doc |-> selectRevision(doc, NoRev), ret |-> TRUE]

\* c4doc_selectCurrentRevision
c4doc_selectCurrentRevision(doc) ==
    LET doc1 == selectRevision(doc, currentRevision(doc.revs))
    IN  [doc |-> doc1, ret |-> doc1.selectedRev # NoRev]

\* revision IDs in ascending order: by generation, then by digest
RECURSIVE SortRevIDs(_)
SortRevIDs(S) ==
    IF S = {} THEN <<>>
    ELSE LET m == CHOOSE x \in S : \A y \in S :
                      \/ x.gen < y.gen
                      \/ x.gen = y.gen /\ x.digest <= y.digest
         IN  <<m>> \o SortRevIDs(S \ {m})

\* the children of a revision; of NoRev: the roots
Children(revs, parent) == {r.revID : r \in {q \in revs : q.parent = parent}}

\* the revisions in depth-first pre-order, from a stack of those to visit
RECURSIVE PreOrderFrom(_, _)
PreOrderFrom(revs, stack) ==
    IF stack = <<>> THEN <<>>
    ELSE <<Head(stack)>> \o
         PreOrderFrom(revs, SortRevIDs(Children(revs, Head(stack))) \o Tail(stack))

PreOrder(revs) == PreOrderFrom(revs, SortRevIDs(Children(revs, NoRev)))

\* the position of a revision of the tree in that order
IndexOf(revs, revID) ==
    CHOOSE i \in 1..Len(PreOrder(revs)) : PreOrder(revs)[i] = revID

\* Revision::next: the pre-order successor, NoRev after the last
RevisionNext(revs, revID) ==
    IF IndexOf(revs, revID) = Len(PreOrder(revs)) THEN NoRev
    ELSE PreOrder(revs)[IndexOf(revs, revID) + 1]

\* Revision::parent
RevisionParent(revs, revID) == GetRev(revs, revID).parent

\* the cursor points at a revision that prune has removed
Dangling(doc) == doc.selectedRev # NoRev /\ ~HasRev(doc.revs, doc.selectedRev)

\* c4doc_selectParentRevision
c4doc_selectParentRevision(doc) ==
    LET doc1 == IF doc.selectedRev # NoRev
                THEN selectRevision(doc, RevisionParent(doc.revs, doc.selectedRev))
                ELSE doc
    IN  [doc |-> doc1, ret |-> doc1.selectedRev # NoRev]

\* c4doc_selectNextRevision
c4doc_selectNextRevision(doc) ==
    LET doc1 == IF doc.selectedRev # NoRev
                THEN selectRevision(doc, RevisionNext(doc.revs, doc.selectedRev))
                ELSE doc
    IN  [doc |-> doc1, ret |-> doc1.selectedRev # NoRev]

\* the loop of c4doc_selectNextLeafRevision: rev = rev->next() while rev is
\* not a leaf, or is deleted and deleted ones are left out
RECURSIVE NextLeaf(_, _, _)
NextLeaf(revs, rev, includeDeleted) ==
    LET n == RevisionNext(revs, rev)
    IN  IF n # NoRev /\ (~isLeaf(revs, n) \/
                         (~includeDeleted /\ GetRev(revs, n).deleted))
        THEN NextLeaf(revs, n, includeDeleted)
        ELSE n

\* the same loop after a first rev->next() that returned n
NextLeafFrom(revs, n, includeDeleted) ==
    IF n # NoRev /\ (~isLeaf(revs, n) \/
                     (~includeDeleted /\ GetRev(revs, n).deleted))
    THEN NextLeaf(revs, n, includeDeleted)
    ELSE n

\* what rev->next() through a null pointer can do: abort the process, or
\* return a pointer that is then taken for a revision of the tree or for null
NullNexts(revs) ==
    {[abort |-> TRUE, rev |-> NoRev]} \cup
    {[abort |-> FALSE, rev |-> x] : x \in {r.revID : r \in revs} \cup {NoRev}}

\* the call does not go through a null pointer
NoNullNext == [abort |-> TRUE, rev |-> NoRev]

\* what Revision::readBody does: returns the body, returns null because the
\* body was compacted away, or throws an engine error
ReadBodyOutcomes == {"body", "gone", "throws"}

\* loadBody that takes a missing body for a body
loadBody_IgnoresNull(doc, readBody, status) ==
    IF doc.selectedRev = NoRev
    THEN [doc |-> doc, ret |-> FALSE, error |-> NoError, read |-> FALSE]
    ELSE [doc |-> [doc EXCEPT !.exposed.body = "loaded"], ret |-> TRUE,
          error |-> NoError, read |-> TRUE]

\* C4DocumentInternal::loadBody; readBody: what _selectedRev->readBody()
\* does if it is called, status: the engine status it throws; read: it was
\* called
loadBody(doc, readBody, status) ==
    IF doc.selectedRev = NoRev
    THEN [doc |-> doc, ret |-> FALSE, error |-> NoError, read |-> FALSE]
    ELSE IF doc.exposed.body # "null"
    THEN [doc |-> doc, ret |-> TRUE, error |-> NoError, read |-> FALSE]
    ELSE IF readBody = "throws"
    THEN [doc |-> doc, ret |-> FALSE, error |-> ForestDBError(status), read |-> TRUE]
    ELSE IF readBody = "body"
    THEN [doc |-> [doc EXCEPT !.exposed.body = "loaded"], ret |-> TRUE,
          error |-> NoError, read |-> TRUE]
    ELSE [doc |-> doc, ret |-> FALSE, error |-> HTTPError(410), read |-> TRUE]

\* c4doc_loadRevisionBody
c4doc_loadRevisionBody(doc, readBody, status) == loadBody(doc, readBody, status)

\* c4doc_selectNextLeafRevision that never leaves out a deleted leaf
c4doc_selectNextLeafRevision_IncludesDeleted(doc, includeDeleted, withBody, readBody, status, nullNext) ==
    IF doc.selectedRev = NoRev /\ nullNext.abort
    THEN [doc |-> doc, ret |-> FALSE, status |-> "crash", error |-> NoError]
    ELSE LET rev == IF doc.selectedRev = NoRev
                    THEN NextLeafFrom(doc.revs, nullNext.rev, TRUE)
                    ELSE NextLeaf(doc.revs, doc.selectedRev, TRUE)
             doc1 == selectRevision(doc, rev)
             l == loadBody(doc1, readBody, status)
         IN  IF rev = NoRev
             THEN [doc |-> doc1, ret |-> FALSE, status |-> "ok",
                   error |-> HTTPError(404)]
             ELSE IF ~withBody
             THEN [doc |-> doc1, ret |-> TRUE, status |-> "ok", error |-> NoError]
             ELSE [doc |-> l.doc, ret |-> l.ret, status |-> "ok", error |-> l.error]

\* c4doc_selectNextLeafRevision. The result is that of selectRevision and,
\* withBody, of loadBody on the revision selected. With no revision selected
\* the first rev->next() goes through the null _selectedRev, which is
\* undefined: nullNext is what it does, status "crash" if it aborts the
\* process, else the loop goes on from the pointer it returned.
c4doc_selectNextLeafRevision(doc, includeDeleted, withBody, readBody, status, nullNext) ==
    IF doc.selectedRev = NoRev /\ nullNext.abort
    THEN [doc |-> doc, ret |-> FALSE, status |-> "crash", error |-> NoError]
    ELSE LET rev == IF doc.selectedRev = NoRev
                    THEN NextLeafFrom(doc.revs, nullNext.rev, includeDeleted)
                    ELSE NextLeaf(doc.revs, doc.selectedRev, includeDeleted)
             doc1 == selectRevision(doc, rev)
             l == loadBody(doc1, readBody, status)
         IN  IF rev = NoRev
             THEN [doc |-> doc1, ret |-> FALSE, status |-> "ok",
                   error |-> HTTPError(404)]
             ELSE IF ~withBody
             THEN [doc |-> doc1, ret |-> TRUE, status |-> "ok", error |-> NoError]
             ELSE [doc |-> l.doc, ret |-> l.ret, status |-> "ok", error |-> l.error]

\* the handle after VersionedDocument::insert / insertHistory made the tree
\* revs1: the revisions added are New, the one given the body holds it inline
Inserted(doc, revs1, bodyRev) ==
    LET added == {r.revID : r \in revs1 \ doc.revs}
    IN  [doc EXCEPT !.revs = revs1,
                    !.changed = doc.changed \/ revs1 # doc.revs,
                    !.news = doc.news \cup added,
                    !.inline = doc.inline \cup ({bodyRev} \cap added)]

\* c4doc_insertRevision without assert(idoc->_db->inTransaction())
c4doc_insertRevision_NoAssert(d, doc, revID, deleted, allowConflict) ==
    LET r == insert(doc.revs, revID, deleted, doc.selectedRev, allowConflict)
    IN  IF r.rev # NoRev
        THEN [doc |-> selectRevision(updateMeta(Inserted(doc, r.revs, revID)), r.rev),
              ret |-> TRUE, status |-> "ok", error |-> NoError]
        ELSE [doc |-> doc, ret |-> FALSE, status |-> "ok", error |-> HTTPError(r.httpStatus)]

\* c4doc_insertRevision; status "crash": assert(inTransaction()) failed;
\* error: the HTTP status recorded in outError, 0 when none is
c4doc_insertRevision(d, doc, revID, deleted, allowConflict) ==
    IF ~inTransaction(d)
    THEN [doc |-> doc, ret |-> FALSE, status |-> "crash", error |-> NoError]
    ELSE LET r == insert(doc.revs, revID, deleted, doc.selectedRev, allowConflict)
         IN  IF r.rev # NoRev
             THEN [doc |-> selectRevision(updateMeta(Inserted(doc, r.revs, revID)),
                                          r.rev),
                   ret |-> TRUE, status |-> "ok", error |-> NoError]
             ELSE [doc |-> doc, ret |-> FALSE, status |-> "ok",
                   error |-> HTTPError(r.httpStatus)]

\* c4doc_insertRevisionWithHistory that leaves the selection where it was
c4doc_insertRevisionWithHistory_NoSelect(d, doc, revIDs, deleted) ==
    LET r == insertHistory(doc.revs, revIDs, deleted)
    IN  IF r.commonAncestor >= 0
        THEN [doc |-> updateMeta(Inserted(doc, r.revs, revIDs[1])),
              ret |-> r.commonAncestor, status |-> "ok", error |-> NoError]
        ELSE [doc |-> doc, ret |-> -1, status |-> "ok", error |-> HTTPError(400)]

\* c4doc_insertRevisionWithHistory: revIDs is revID followed by history[]
c4doc_insertRevisionWithHistory(d, doc, revIDs, deleted) ==
    IF ~inTransaction(d)
    THEN [doc |-> doc, ret |-> -1, status |-> "crash", error |-> NoError]
    ELSE LET r == insertHistory(doc.revs, revIDs, deleted)
         IN  IF r.commonAncestor >= 0
             THEN [doc |-> selectRevision(
                              updateMeta(Inserted(doc, r.revs, revIDs[1])),
                              revIDs[1]),
                   ret |-> r.commonAncestor, status |-> "ok", error |-> NoError]
             ELSE [doc |-> doc, ret |-> -1, status |-> "ok", error |-> HTTPError(400)]

\* c4doc_setType; status "crash": assert(inTransaction()) failed
c4doc_setType(d, doc, docType) ==
    IF ~inTransaction(d) THEN [doc |-> doc, status |-> "crash"]
    ELSE [doc |-> [doc EXCEPT !.docType = docType], status |-> "ok"]

\* c4db_close: delete database; ~c4Database asserts that no transaction is
\* open. The stores stay in the file, the handle that opens it next is new.
c4db_close(d) ==
    IF d.transactionLevel # 0 THEN [db |-> d, status |-> "crash"]
    ELSE [db |-> [NewDatabase EXCEPT !.stores = d.stores], status |-> "ok"]

\* the handle after RevTree::prune left the revisions `pruned`
Pruned(doc, pruned) ==
    LET kept == {r.revID : r \in pruned}
    IN  [doc EXCEPT !.revs = pruned,
                    !.changed = doc.changed \/ pruned # doc.revs,
                    !.news = doc.news \cap kept,
                    !.inline = doc.inline \cap kept]

\* c4doc_save: prune, then VersionedDocument::save on the transaction, which
\* gives the New revisions their sequence; saveFails: the write throws.
\* Neither the cursor nor the public selectedRev is touched.
c4doc_save(d, doc, maxRevTreeDepth, saveFails) ==
    IF ~inTransaction(d) \/ ~d.transaction.ptr
    THEN [db |-> d, doc |-> doc, ret |-> FALSE, status |-> "crash"]
    ELSE LET pruned == prune(doc.revs, maxRevTreeDepth)
             doc1 == Pruned(doc, pruned)
         IN  IF ~doc1.changed
             THEN [db |-> d, doc |-> doc1, ret |-> TRUE, status |-> "ok"]
             ELSE IF saveFails
             THEN [db |-> d, doc |-> doc1, ret |-> FALSE, status |-> "caught"]
             ELSE [db |-> [d EXCEPT !.transaction.pending[DefaultStore] =
                              [k \in (DOMAIN @) \cup {doc.docID} |->
                                  IF k = doc.docID THEN DocRecord(pruned) ELSE @[k]]],
                   doc |-> [doc1 EXCEPT !.changed = FALSE, !.exists = TRUE,
                               !.news = {},
                               !.deleted = DocRecord(pruned).meta.deleted,
                               !.conflicted = DocRecord(pruned).meta.conflicted],
                   ret |-> TRUE, status |-> "ok"]

\* the DocEnumerator of c4db_getDocumentCount over the default store:
\* default options leave out the documents flagged deleted
DefaultEnumerator(store, includeDeleted) ==
    {k \in DOMAIN store : includeDeleted \/ ~store[k].meta.deleted}

\* the test of c4db_getDocumentCount inverted
CountsDocument_Inverted(record) == record.meta.deleted

\* the test of c4db_getDocumentCount on one enumerated document
CountsDocument(record) == ~record.meta.deleted

\* c4db_getDocumentCount
c4db_getDocumentCount(d) ==
    LET s == Visible(d)[DefaultStore]
    IN  Cardinality({k \in DefaultEnumerator(s, FALSE) : CountsDocument(s[k])})

----------------------------------------------------------------------------
(* State *)

VARIABLES
    db,         \* the c4Database
    crashed,    \* the process was aborted by a failed assert or a null dereference
    now,        \* time(NULL)
    exp,        \* the C4ExpiryEnumerator
    frame,      \* history: the outermost transaction frame now open or last closed
    last,       \* history: the last call and its outcome
    hist,       \* history: what the expiry enumerator was built from and yielded
    conc,       \* the database mutex and the threads inside a call
    idoc,       \* the C4DocumentInternal the caller holds
    seqs,       \* the sequence of each document of the default store
    denum       \* the C4DocEnumerator the caller holds

vars == <<db, crashed, now, exp, frame, last, hist, conc, idoc, seqs, denum>>

\* the threads that call into one database
Threads == {1, 2}

\* calls each thread makes
MaxCalls == 2

\* a thread outside any call
IdleThread == [pc |-> "idle", tmp |-> 0, commit |-> FALSE, open |-> 0, calls |-> 0]

\* nobody holds the mutex, every thread is idle
NoThreads == [mutex |-> 0, th |-> [t \in Threads |-> IdleThread]]

\* latest time explored
MaxTime == 2

\* the keys, metas and bodies given to the raw document calls
RawKeys == {<<107>>}

RawSlices == {NullSlice, EmptySlice, Bytes(<<1>>)}

RawStore == "raw"

\* the documents given an expiration ("a", "b") and their timestamps
ExpDocs == {<<97>>, <<98>>}

ExpTimes == 1..MaxTime

NoCall == [op |-> "none", level |-> 0, count |-> 0, commit |-> FALSE, status |-> "ok",
           ret |-> FALSE, raised |-> FALSE, closed |-> "none",
           key |-> <<>>, meta |-> NullSlice, body |-> NullSlice,
           got |-> [found |-> FALSE, key |-> <<>>, meta |-> <<>>, body |-> <<>>]]

NoFrame == [start |-> EmptyStores, poisoned |-> FALSE, failed |-> FALSE,
            wrote |-> FALSE, failedDels |-> {}, saves |-> 0]

\* no C4DocEnumerator: e is the DocEnumerator, the documents it has still to
\* yield; since, yielded, done and error record the calls made on it
NoDocEnumerator == [open |-> FALSE, e |-> <<>>, since |-> 0, yielded |-> <<>>,
                    done |-> FALSE, error |-> NoError]

NoHist == [builtAt |-> 0, resetAt |-> 0, snap |-> EmptyStore, yielded |-> <<>>]

Init ==
    /\ db = NewDatabase
    /\ crashed = FALSE
    /\ now = 1
    /\ exp = NoEnumerator
    /\ frame = NoFrame
    /\ last = NoCall
    /\ hist = NoHist
    /\ conc = NoThreads
    /\ idoc = NoDocument
    /\ seqs = <<>>
    /\ denum = NoDocEnumerator

\* history of the frame: opened by the call that leaves depth 0
FrameOnBegin(d) ==
    IF d.transactionLevel = 0 THEN [NoFrame EXCEPT !.start = d.stores] ELSE frame

\* how a call that ended a frame at depth `level` closed the outermost frame
Closed(level, ended) == IF level = 1 THEN ended ELSE "none"

\* a call of c4db_beginTransaction
Begin(newFails) ==
    /\ ~crashed
    /\ db.transactionLevel < MaxLevel
    /\ newFails => db.transactionLevel = 0
    /\ LET r == c4db_beginTransaction(db, newFails)
       IN  /\ db' = r.db
           /\ last' = [NoCall EXCEPT !.op = "begin", !.level = db.transactionLevel,
                                     !.status = r.status, !.ret = r.ret,
                                     !.raised = (r.status = "threw")]
    /\ frame' = FrameOnBegin(db)
    /\ UNCHANGED <<idoc, conc, crashed, now, seqs, denum, exp, hist>>

\* a call of c4db_endTransaction
End(commit, commitFails) ==
    /\ ~crashed
    /\ commitFails => (db.transactionLevel = 1 /\ commit /\ db.transaction.ptr)
    /\ LET r == c4db_endTransaction(db, commit, commitFails)
       IN  /\ db' = r.db
           /\ crashed' = (r.status = "crash")
           /\ last' = [NoCall EXCEPT !.op = "end", !.level = db.transactionLevel,
                                     !.commit = commit,
                                     !.status = r.status, !.ret = r.ret,
                                     !.raised = (r.status = "threw"),
                                     !.closed = Closed(db.transactionLevel,
                                         IF commit THEN "commit" ELSE "abort")]
    /\ frame' = IF db.transactionLevel > 1 /\ ~commit
                THEN [frame EXCEPT !.poisoned = TRUE]
                ELSE frame
    /\ UNCHANGED <<idoc, conc, now, seqs, denum, exp, hist>>

\* a call of c4raw_put
RawPut(k, meta, body, fail) ==
    /\ ~crashed
    /\ db.transactionLevel < MaxLevel
    /\ fail = "begin" => db.transactionLevel = 0
    /\ fail = "commit" => db.transactionLevel = 0
    /\ LET r == c4raw_put(db, RawStore, k, meta, body, fail)
           f == FrameOnBegin(db)
       IN  /\ db' = r.db
           /\ crashed' = (r.status = "crash")
           /\ last' = [NoCall EXCEPT !.op = "put", !.level = db.transactionLevel,
                                     !.status = r.status, !.ret = r.ret,
                                     !.raised = (r.status = "caught"),
                                     !.closed = Closed(db.transactionLevel + 1,
                                                       r.ended),
                                     !.key = k, !.meta = meta, !.body = body]
           /\ frame' = [f EXCEPT
                          !.failed = f.failed \/ r.status = "caught",
                          !.wrote = f.wrote \/ (db.transactionLevel > 0 /\
                                                 Visible(r.db) # Visible(db)),
                          !.poisoned = f.poisoned \/
                              (r.ended = "abort" /\ db.transactionLevel > 0)]
    /\ UNCHANGED <<idoc, conc, now, seqs, denum, exp, hist>>

\* a call of c4raw_get
RawGet(k) ==
    /\ ~crashed
    /\ last' = [NoCall EXCEPT !.op = "get", !.level = db.transactionLevel,
                              !.key = k, !.got = c4raw_get(db, RawStore, k),
                              !.ret = c4raw_get(db, RawStore, k).found]
    /\ UNCHANGED <<idoc, conc, db, crashed, now, seqs, denum, exp, frame, hist>>

Next ==
    \/ \E newFails \in BOOLEAN : Begin(newFails)
    \/ \E commit \in BOOLEAN, commitFails \in BOOLEAN : End(commit, commitFails)
    \/ \E k \in RawKeys, meta \in RawSlices, body \in RawSlices,
          fail \in PutFailures : RawPut(k, meta, body, fail)
    \/ \E k \in RawKeys : RawGet(k)

Spec == Init /\ [][Next]_vars

----------------------------------------------------------------------------
(* The expiry enumerator's calls *)

\* the clock advances
Tick ==
    /\ ~crashed
    /\ now < MaxTime
    /\ now' = now + 1
    /\ UNCHANGED <<idoc, conc, db, crashed, exp, frame, last, hist, seqs, denum>>

\* the record of a frame is kept until the next call made outside every
\* frame
FrameOutside(d) == IF d.transactionLevel = 0 THEN NoFrame ELSE frame

\* a call of c4doc_setExpiration, outside any transaction and while no
\* enumerator is allocated
SetExpiration(doc, timestamp) ==
    /\ ~crashed
    /\ db.transactionLevel = 0
    /\ ~exp.open
    /\ db' = [db EXCEPT !.stores = SetExpirationWrite(db.stores, doc, timestamp)]
    /\ last' = [NoCall EXCEPT !.op = "setExpiration", !.ret = TRUE]
    /\ frame' = FrameOutside(db)
    /\ UNCHANGED <<idoc, conc, crashed, now, seqs, denum, exp, hist>>

\* a call of c4db_enumerateExpired
EnumerateExpired ==
    /\ ~crashed
    /\ ~exp.open
    /\ exp' = NewExpiryEnumerator(db, now)
    /\ hist' = [builtAt |-> now, resetAt |-> now,
                snap |-> Visible(db)[ExpiryStore], yielded |-> <<>>]
    /\ last' = [NoCall EXCEPT !.op = "enumerateExpired",
                              !.level = db.transactionLevel, !.ret = TRUE]
    /\ frame' = FrameOutside(db)
    /\ UNCHANGED <<idoc, conc, db, crashed, now, seqs, denum>>

\* a call of c4exp_free
ExpFree ==
    /\ ~crashed
    /\ exp.open
    /\ exp' = NoEnumerator
    /\ hist' = NoHist
    /\ last' = [NoCall EXCEPT !.op = "free", !.level = db.transactionLevel]
    /\ frame' = FrameOutside(db)
    /\ UNCHANGED <<idoc, conc, db, crashed, now, seqs, denum>>

\* a call of c4exp_next
ExpNext ==
    /\ ~crashed
    /\ exp.open
    /\ LET r == c4exp_next(exp)
       IN  /\ exp' = r.exp
           /\ hist' = IF r.ret
                      THEN [hist EXCEPT !.yielded =
                               Append(@, [docID |-> docID(r.exp), key |-> key(r.exp)])]
                      ELSE hist
           /\ last' = [NoCall EXCEPT !.op = "next", !.level = db.transactionLevel,
                                     !.ret = r.ret, !.raised = (r.status = "threw"),
                                     !.status = IF r.status = "threw" THEN "caught"
                                                ELSE "ok"]
    /\ frame' = FrameOutside(db)
    /\ UNCHANGED <<idoc, conc, db, crashed, now, seqs, denum>>

\* a call of c4exp_purgeExpired
PurgeExpired(fail, failAt) ==
    /\ ~crashed
    /\ exp.open
    /\ db.transactionLevel < MaxLevel
    /\ fail = "begin" => db.transactionLevel = 0
    /\ fail = "commit" => db.transactionLevel = 0
    /\ failAt <= IF fail = "loop" THEN Len(reset(exp, db).e.keys) ELSE 0
    /\ LET r == c4exp_purgeExpired(db, exp, fail, failAt)
           f == FrameOnBegin(db)
       IN  /\ db' = r.db
           /\ exp' = r.exp
           /\ crashed' = (r.status = "crash")
           /\ hist' = IF fail = "reset" THEN hist
                      ELSE [hist EXCEPT !.resetAt = now,
                                        !.snap = Visible(db)[ExpiryStore],
                                        !.yielded = r.yielded]
           /\ last' = [NoCall EXCEPT !.op = "purge", !.level = db.transactionLevel,
                                     !.status = r.status, !.ret = r.ret,
                                     !.raised = r.raised,
                                     !.closed = Closed(db.transactionLevel + 1,
                                                       r.closed)]
           /\ frame' = [f EXCEPT
                          !.failed = f.failed \/ r.raised,
                          !.wrote = f.wrote \/ (db.transactionLevel > 0 /\
                                                 Visible(r.db) # Visible(db)),
                          !.failedDels = IF r.status = "caught"
                              THEN f.failedDels \cup
                                   {r.yielded[i].key : i \in 1..Len(r.yielded)} \cup
                                   {r.yielded[i].docID : i \in 1..Len(r.yielded)}
                              ELSE f.failedDels,
                          !.poisoned = f.poisoned \/
                              (r.closed = "abort" /\ db.transactionLevel > 0)]
    /\ UNCHANGED <<idoc, conc, now, seqs, denum>>

NextExpiry ==
    \/ \E newFails \in BOOLEAN : db.transactionLevel = 0 /\ Begin(newFails)
    \/ \E commit \in BOOLEAN, commitFails \in BOOLEAN : End(commit, commitFails)
    \/ Tick
    \/ \E doc \in ExpDocs, timestamp \in ExpTimes : SetExpiration(doc, timestamp)
    \/ EnumerateExpired
    \/ ExpNext
    \/ ExpFree
    \/ \E fail \in PurgeFailures, failAt \in 0..Cardinality(ExpDocs) :
          PurgeExpired(fail, failAt)

SpecExpiry == Init /\ [][NextExpiry]_vars

----------------------------------------------------------------------------
(* Properties of the transaction frames and the raw documents (Spec) *)

\* C1: once a nested endTransaction(commit = false) happened in a frame, the
\* frame is aborted when the depth returns to zero: the committed stores are
\* those of the frame's start, whatever the outermost call's commit flag.
C1_NestedAbortPoisonsOuter ==
    (~crashed /\ db.transactionLevel = 0 /\ last.closed # "none" /\ frame.poisoned)
        => db.stores = frame.start

C3_TransactionIffDepth ==
    ~crashed => (db.transaction.ptr <=> inTransaction(db))

\* C8: after a raw put whose meta and body are both of zero length the key is
\* not found; after any other raw put a get returns the key, meta and body.
C8_PutDeletesWhenEmpty ==
    (last.op = "put" /\ last.status = "ok") =>
        LET g == c4raw_get(db, RawStore, last.key)
        IN  IF Len(last.meta.data) = 0 /\ Len(last.body.data) = 0
            THEN ~g.found
            ELSE g = [found |-> TRUE, key |-> last.key,
                      meta |-> last.meta.data, body |-> last.body.data]

----------------------------------------------------------------------------
(* Properties of the expiry enumerator (SpecExpiry) *)

\* the timestamp recorded for a document under its reverse key
RecordedTime(store, doc) == store[ReverseKey(doc)].body[1]

\* the documents of the store whose recorded timestamp is at most t
ExpiredDocs(store, t) ==
    {d \in ExpDocs : ReverseKey(d) \in DOMAIN store /\ RecordedTime(store, d) <= t}

YieldedDocs == {hist.yielded[i].docID : i \in 1..Len(hist.yielded)}

\* what was yielded so far is sound for end time t: forward keys of
\* documents recorded at or before t, each once, in timestamp order
YieldedWithin(t) ==
    LET y == hist.yielded
    IN  /\ \A i \in 1..Len(y) :
              /\ y[i].docID \in ExpiredDocs(hist.snap, t)
              /\ y[i].key = ExpiryKey(RecordedTime(hist.snap, y[i].docID), y[i].docID)
        /\ \A i, j \in 1..Len(y) :
              i < j => /\ y[i].docID # y[j].docID
                       /\ RecordedTime(hist.snap, y[i].docID)
                              <= RecordedTime(hist.snap, y[j].docID)

C5_ResetTakesFreshNow ==
    (exp.open /\ hist.resetAt > hist.builtAt /\ exp.e.keys = <<>>
        /\ last.op = "purge" /\ ~last.raised)
        => YieldedDocs = ExpiredDocs(hist.snap, hist.resetAt)

\* C5: after a reset at a time later than the construction, the enumeration
\* yields exactly the documents recorded at or before the time of the
\* construction.
C5_ResetKeepsEndTimestamp ==
    (exp.open /\ hist.resetAt > hist.builtAt) =>
        /\ YieldedWithin(hist.builtAt)
        /\ exp.e.keys = <<>> => YieldedDocs = ExpiredDocs(hist.snap, hist.builtAt)

\* a reset later than the construction enumerated to the end, over a store
\* with a document recorded between the construction and the reset
C5_Witness ==
    /\ exp.open /\ hist.resetAt > hist.builtAt /\ exp.e.keys = <<>>
    /\ last.op = "purge" /\ ~last.raised /\ hist.yielded # <<>>
    /\ \E d \in ExpDocs : /\ ReverseKey(d) \in DOMAIN hist.snap
                          /\ RecordedTime(hist.snap, d) > hist.builtAt
                          /\ RecordedTime(hist.snap, d) <= hist.resetAt

\* C6: after c4exp_purgeExpired returned true at depth zero, the forward and
\* the reverse key of every yielded entry are absent from the committed
\* expiry store and the entries recorded after the end timestamp are present.
C6_PurgeRemovesExpired ==
    (last.op = "purge" /\ last.ret /\ last.level = 0 /\ ~crashed) =>
        LET s == db.stores[ExpiryStore]
            y == hist.yielded
        IN  /\ \A i \in 1..Len(y) : /\ y[i].key \notin DOMAIN s
                                    /\ y[i].docID \notin DOMAIN s
            /\ \A d \in ExpDocs :
                  (ReverseKey(d) \in DOMAIN hist.snap
                      /\ RecordedTime(hist.snap, d) > exp.endTimestamp)
                  => /\ ReverseKey(d) \in DOMAIN s
                     /\ ExpiryKey(RecordedTime(hist.snap, d), d) \in DOMAIN s

\* C7: a purge in which a step raised returns false, and the deletions of a
\* purge that failed are not in the committed expiry store when the frame
\* it ran in has closed.
C7_PurgeAbortsOnFailure ==
    /\ (last.op = "purge" /\ last.raised /\ ~crashed) => ~last.ret
    /\ (db.transactionLevel = 0 /\ last.closed # "none" /\ ~crashed) =>
           \A k \in frame.failedDels : k \in DOMAIN db.stores[ExpiryStore]

----------------------------------------------------------------------------
(* Two threads calling into one database (SpecThreads).  c4Database has no *)
(* mutex of its own and c4db_beginTransaction / c4db_endTransaction take   *)
(* none: each read and each write of a field is a step of its own.  Only   *)
(* c4db_enumerateExpired runs under WITH_LOCK(database).                   *)

\* the thread's call returned
Return(t, openDelta) ==
    [conc EXCEPT !.th[t] = [IdleThread EXCEPT
                               !.open = conc.th[t].open + openDelta,
                               !.calls = conc.th[t].calls + 1]]

\* c4db_beginTransaction, ++_transactionLevel: the read
TBeginRead(t) ==
    /\ ~crashed
    /\ conc.th[t].pc = "idle"
    /\ conc.th[t].calls < MaxCalls
    /\ conc' = [conc EXCEPT !.th[t].pc = "beginWrite",
                            !.th[t].tmp = db.transactionLevel]
    /\ UNCHANGED <<idoc, db, crashed, now, seqs, denum, exp, frame, last, hist>>

\* c4db_beginTransaction, ++_transactionLevel: the write, and the test == 1
TBeginWrite(t) ==
    /\ ~crashed
    /\ conc.th[t].pc = "beginWrite"
    /\ db' = [db EXCEPT !.transactionLevel = conc.th[t].tmp + 1]
    /\ conc' = IF conc.th[t].tmp + 1 = 1
               THEN [conc EXCEPT !.th[t].pc = "beginNew"]
               ELSE Return(t, 1)
    /\ UNCHANGED <<idoc, crashed, now, seqs, denum, exp, frame, last, hist>>

\* c4db_beginTransaction: _transaction = new Transaction(_db)
TBeginNew(t) ==
    /\ ~crashed
    /\ conc.th[t].pc = "beginNew"
    /\ db' = [db EXCEPT !.transaction = NewTransaction(db.stores)]
    /\ conc' = Return(t, 1)
    /\ UNCHANGED <<idoc, crashed, now, seqs, denum, exp, frame, last, hist>>

\* c4db_endTransaction by a thread that has a frame open: the assert and
\* the read of --_transactionLevel
TEndRead(t, commit) ==
    /\ ~crashed
    /\ conc.th[t].pc = "idle"
    /\ conc.th[t].calls < MaxCalls
    /\ conc.th[t].open > 0
    /\ crashed' = ~(db.transactionLevel > 0)
    /\ conc' = [conc EXCEPT !.th[t].pc = "endWrite",
                            !.th[t].tmp = db.transactionLevel,
                            !.th[t].commit = commit]
    /\ UNCHANGED <<idoc, db, now, seqs, denum, exp, frame, last, hist>>

\* c4db_endTransaction, --_transactionLevel: the write, and the test == 0
TEndWrite(t) ==
    /\ ~crashed
    /\ conc.th[t].pc = "endWrite"
    /\ db' = [db EXCEPT !.transactionLevel = conc.th[t].tmp - 1]
    /\ conc' = IF conc.th[t].tmp - 1 = 0
               THEN [conc EXCEPT !.th[t].pc = "endDelete"]
               ELSE Return(t, -1)
    /\ UNCHANGED <<idoc, crashed, now, seqs, denum, exp, frame, last, hist>>

\* c4db_endTransaction: t = _transaction; _transaction = NULL; abort; delete t
TEndDelete(t) ==
    /\ ~crashed
    /\ conc.th[t].pc = "endDelete"
    /\ LET tr == db.transaction
           d  == [db EXCEPT !.transaction = NoTransaction]
       IN  IF ~conc.th[t].commit /\ ~tr.ptr
           THEN db' = d /\ crashed' = TRUE
           ELSE /\ db' = DeleteTransaction(d,
                            [tr EXCEPT !.aborted = ~conc.th[t].commit], FALSE).db
                /\ crashed' = FALSE
    /\ conc' = Return(t, -1)
    /\ UNCHANGED <<idoc, now, seqs, denum, exp, frame, last, hist>>

\* c4db_enumerateExpired: WITH_LOCK(database)
TLock(t) ==
    /\ ~crashed
    /\ conc.th[t].pc = "idle"
    /\ conc.th[t].calls < MaxCalls
    /\ conc.mutex = 0
    /\ conc' = [conc EXCEPT !.mutex = t, !.th[t].pc = "enumerate"]
    /\ UNCHANGED <<idoc, db, crashed, now, seqs, denum, exp, frame, last, hist>>

\* c4db_enumerateExpired: new C4ExpiryEnumerator(database), and the unlock
TEnumerate(t) ==
    /\ ~crashed
    /\ conc.th[t].pc = "enumerate"
    /\ exp' = NewExpiryEnumerator(db, now)
    /\ hist' = [builtAt |-> now, resetAt |-> now,
                snap |-> Visible(db)[ExpiryStore], yielded |-> <<>>]
    /\ conc' = [Return(t, 0) EXCEPT !.mutex = 0]
    /\ UNCHANGED <<idoc, db, crashed, now, seqs, denum, frame, last>>

NextThreads ==
    \E t \in Threads :
        \/ TBeginRead(t)
        \/ TBeginWrite(t)
        \/ TBeginNew(t)
        \/ \E commit \in BOOLEAN : TEndRead(t, commit)
        \/ TEndWrite(t)
        \/ TEndDelete(t)
        \/ TLock(t)
        \/ TEnumerate(t)

SpecThreads == Init /\ [][NextThreads]_vars

\* the frames the threads have open between them
RECURSIVE OpenFrames(_)
OpenFrames(T) ==
    IF T = {} THEN 0
    ELSE LET t == CHOOSE u \in T : TRUE
         IN  conc.th[t].open + OpenFrames(T \ {t})

\* C10: the calls of two threads are serialized: when no thread is inside a
\* call, the depth is the number of frames begun and not ended, as after any
\* sequential order of the calls, and a Transaction is held exactly when
\* that depth is above zero.
C10_CallsSerialized ==
    (~crashed /\ \A t \in Threads : conc.th[t].pc = "idle") =>
        /\ db.transactionLevel = OpenFrames(Threads)
        /\ db.transaction.ptr <=> db.transactionLevel > 0

----------------------------------------------------------------------------
(* The document calls (SpecDoc) *)

\* documents written in one transaction
MaxSaves == 1

\* the maxRevTreeDepth values given to c4doc_save
SaveDepths == {1, 20}

\* the history vectors given to c4doc_insertRevisionWithHistory: a revision
\* with its ancestors down to the first generation, or two revisions in
\* the wrong order
Histories == {<<a>> : a \in {r \in RevIDs : r.gen = 1}}
    \cup {<<a, b>> : a \in RevIDs, b \in {r \in RevIDs : r.gen = 1}}

\* what is recorded of a call on a document: that it was the last call
DocumentCall == [NoCall EXCEPT !.op = "document"]

\* the end of a transaction whose document handles have been freed
DocEnd(commit, commitFails) ==
    /\ ~idoc.open
    /\ End(commit, commitFails)

\* a call of c4doc_get
DocGet(id) ==
    /\ ~crashed
    /\ ~idoc.open
    /\ idoc' = c4doc_get(db, id)
    /\ last' = DocumentCall
    /\ UNCHANGED <<db, crashed, now, seqs, denum, exp, frame, hist, conc>>

\* a call of c4doc_free
DocFree ==
    /\ ~crashed
    /\ idoc.open
    /\ idoc' = NoDocument
    /\ last' = DocumentCall
    /\ UNCHANGED <<db, crashed, now, seqs, denum, exp, frame, hist, conc>>

\* a call of c4doc_selectRevision
SelectRevision(revID) ==
    /\ ~crashed
    /\ idoc.open
    /\ LET r == c4doc_selectRevision(idoc, revID)
       IN  /\ idoc' = r.doc
           /\ last' = DocumentCall
    /\ UNCHANGED <<db, crashed, now, seqs, denum, exp, frame, hist, conc>>

\* a call of c4doc_insertRevision
InsertRevision(revID, deleted, allowConflict) ==
    /\ ~crashed
    /\ idoc.open
    /\ ~Dangling(idoc)
    /\ LET r == c4doc_insertRevision(db, idoc, revID, deleted, allowConflict)
       IN  /\ idoc' = r.doc
           /\ crashed' = (r.status = "crash")
           /\ last' = DocumentCall
    /\ UNCHANGED <<db, now, seqs, denum, exp, frame, hist, conc>>

\* a call of c4doc_insertRevisionWithHistory
InsertRevisionWithHistory(revIDs, deleted) ==
    /\ ~crashed
    /\ idoc.open
    /\ LET r == c4doc_insertRevisionWithHistory(db, idoc, revIDs, deleted)
       IN  /\ idoc' = r.doc
           /\ crashed' = (r.status = "crash")
           /\ last' = DocumentCall
    /\ UNCHANGED <<db, now, seqs, denum, exp, frame, hist, conc>>

\* a call of c4doc_save
Save(maxRevTreeDepth, saveFails) ==
    /\ ~crashed
    /\ idoc.open
    /\ saveFails => (inTransaction(db) /\ db.transaction.ptr /\
                     (idoc.changed \/ prune(idoc.revs, maxRevTreeDepth) # idoc.revs))
    /\ LET r == c4doc_save(db, idoc, maxRevTreeDepth, saveFails)
       IN  /\ Visible(r.db) # Visible(db) => frame.saves < MaxSaves
           /\ db' = r.db
           /\ idoc' = r.doc
           /\ crashed' = (r.status = "crash")
           /\ last' = DocumentCall
           /\ frame' = [frame EXCEPT
                           !.wrote = frame.wrote \/ Visible(r.db) # Visible(db),
                           !.saves = IF Visible(r.db) # Visible(db)
                                     THEN frame.saves + 1 ELSE frame.saves]
    /\ UNCHANGED <<now, seqs, denum, exp, hist, conc>>

\* a call of c4db_getDocumentCount
GetDocumentCount ==
    /\ ~crashed
    /\ last' = [NoCall EXCEPT !.op = "getDocumentCount",
                              !.level = db.transactionLevel,
                              !.count = c4db_getDocumentCount(db)]
    /\ UNCHANGED <<db, crashed, now, seqs, denum, exp, frame, hist, conc, idoc>>

NextDoc ==
    \/ \E newFails \in BOOLEAN : db.transactionLevel = 0 /\ Begin(newFails)
    \/ \E commit \in BOOLEAN, commitFails \in BOOLEAN : DocEnd(commit, commitFails)
    \/ \E id \in DocIDs : inTransaction(db) /\ DocGet(id)
    \/ DocFree
    \/ \E revID \in RevIDs, deleted \in BOOLEAN, allowConflict \in BOOLEAN :
          InsertRevision(revID, deleted, allowConflict)
    \/ \E revIDs \in Histories, deleted \in BOOLEAN :
          InsertRevisionWithHistory(revIDs, deleted)
    \/ \E maxRevTreeDepth \in SaveDepths, saveFails \in BOOLEAN :
          Save(maxRevTreeDepth, saveFails)
    \/ GetDocumentCount

SpecDoc == Init /\ [][NextDoc]_vars

\* the documents of the committed default store whose winning revision,
\* found in the stored tree, is not deleted
LiveDocuments ==
    {k \in DOMAIN db.stores[DefaultStore] :
        LET revs == db.stores[DefaultStore][k].meta.revs
        IN  revs # {} /\ ~GetRev(revs, currentRevision(revs)).deleted}

----------------------------------------------------------------------------
(* Calls made against their preconditions (SpecPre) *)

\* the document and the type given to the calls
PreDocIDs == {<<97>>}

DocTypes == {<<116>>}

\* a call of c4doc_setType
SetType(docType) ==
    /\ ~crashed
    /\ idoc.open
    /\ LET r == c4doc_setType(db, idoc, docType)
       IN  /\ idoc' = r.doc
           /\ crashed' = (r.status = "crash")
    /\ last' = DocumentCall
    /\ UNCHANGED <<db, now, seqs, denum, exp, frame, hist, conc>>

\* a call of c4db_close, at depth 0 after the handles were freed, followed
\* by c4db_open of the same file
Close ==
    /\ ~crashed
    /\ db.transactionLevel = 0 => ~idoc.open /\ ~exp.open
    /\ LET r == c4db_close(db)
       IN  /\ db' = r.db
           /\ crashed' = (r.status = "crash")
           /\ last' = [NoCall EXCEPT !.op = "close", !.level = db.transactionLevel,
                                     !.status = r.status, !.ret = (r.status = "ok")]
    /\ UNCHANGED <<idoc, conc, now, seqs, denum, exp, frame, hist>>

NextPre ==
    \/ \E newFails \in BOOLEAN : Begin(newFails)
    \/ \E commit \in BOOLEAN, commitFails \in BOOLEAN : End(commit, commitFails)
    \/ \E id \in PreDocIDs : DocGet(id)
    \/ DocFree
    \/ \E revID \in RevIDs, deleted \in BOOLEAN, allowConflict \in BOOLEAN :
          InsertRevision(revID, deleted, allowConflict)
    \/ \E revIDs \in Histories, deleted \in BOOLEAN :
          InsertRevisionWithHistory(revIDs, deleted)
    \/ \E docType \in DocTypes : SetType(docType)
    \/ \E maxRevTreeDepth \in SaveDepths, saveFails \in BOOLEAN :
          Save(maxRevTreeDepth, saveFails)
    \/ Close

SpecPre == Init /\ [][NextPre]_vars

\* the call aborted the process and changed neither the database nor the
\* document
Aborted == crashed' /\ db' = db /\ idoc' = idoc

\* C11: every call of insertRevision, insertRevisionWithHistory, setType,
\* save and endTransaction made at depth zero, and every close made at a
\* depth above zero, aborts the process and leaves the database (committed
\* and staged stores, depth) and the document as they were.
C11_PreconditionsAbort ==
    [][/\ db.transactionLevel = 0 =>
            /\ \A revID \in RevIDs, deleted \in BOOLEAN, allowConflict \in BOOLEAN :
                  InsertRevision(revID, deleted, allowConflict) => Aborted
            /\ \A revIDs \in Histories, deleted \in BOOLEAN :
                  InsertRevisionWithHistory(revIDs, deleted) => Aborted
            /\ \A docType \in DocTypes : SetType(docType) => Aborted
            /\ \A maxRevTreeDepth \in SaveDepths, saveFails \in BOOLEAN :
                  Save(maxRevTreeDepth, saveFails) => Aborted
            /\ \A commit \in BOOLEAN, commitFails \in BOOLEAN :
                  End(commit, commitFails) => Aborted
       /\ db.transactionLevel > 0 => (Close => Aborted)]_vars

\* C11: the process was aborted at depth zero while the caller held a
\* document with a saved revision and the store held a committed document.
C11_Witness ==
    /\ crashed /\ db.transactionLevel = 0
    /\ idoc.open /\ idoc.revs # {}
    /\ DOMAIN db.stores[DefaultStore] # {}

----------------------------------------------------------------------------
(* The calls on the revisions of one document (SpecRev) *)

\* the revision IDs given to the calls ("1-aa", "2-aa", "2-bb")
TreeRevIDs == {[gen |-> 1, digest |-> 1], [gen |-> 2, digest |-> 1],
               [gen |-> 2, digest |-> 2]}

\* the history vectors: one revision, or two different ones in any order
TreeHistories == {<<a>> : a \in TreeRevIDs}
    \cup {h \in {<<a, b>> : a \in TreeRevIDs, b \in TreeRevIDs} : h[1] # h[2]}

\* the engine status a failed read throws
ReadFailures == {-5}

\* what is recorded of a call that moves the cursor or loads the body
CursorCall(op, r) ==
    [NoCall EXCEPT !.op = op, !.ret = r.ret, !.count = r.error.code,
                   !.raised = (r.error.domain = "ForestDB")]

\* a call of c4doc_selectCurrentRevision
SelectCurrentRevision ==
    /\ ~crashed
    /\ idoc.open
    /\ idoc' = c4doc_selectCurrentRevision(idoc).doc
    /\ last' = DocumentCall
    /\ UNCHANGED <<db, crashed, now, seqs, denum, exp, frame, hist, conc>>

\* a call of c4doc_selectParentRevision
SelectParentRevision ==
    /\ ~crashed
    /\ idoc.open
    /\ ~Dangling(idoc)
    /\ idoc' = c4doc_selectParentRevision(idoc).doc
    /\ last' = DocumentCall
    /\ UNCHANGED <<db, crashed, now, seqs, denum, exp, frame, hist, conc>>

\* a call of c4doc_selectNextRevision
SelectNextRevision ==
    /\ ~crashed
    /\ idoc.open
    /\ ~Dangling(idoc)
    /\ idoc' = c4doc_selectNextRevision(idoc).doc
    /\ last' = DocumentCall
    /\ UNCHANGED <<db, crashed, now, seqs, denum, exp, frame, hist, conc>>

\* a call of c4doc_selectNextLeafRevision
SelectNextLeafRevision(includeDeleted, withBody, readBody, status, nullNext) ==
    /\ ~crashed
    /\ idoc.open
    /\ ~Dangling(idoc)
    /\ readBody # "body" => withBody
    /\ nullNext \in NullNexts(idoc.revs)
    /\ idoc.selectedRev # NoRev => nullNext = NoNullNext
    /\ LET r == c4doc_selectNextLeafRevision(idoc, includeDeleted, withBody,
                                            readBody, status, nullNext)
       IN  /\ idoc' = r.doc
           /\ crashed' = (r.status = "crash")
           /\ last' = CursorCall("selectNextLeaf", r)
    /\ UNCHANGED <<db, now, seqs, denum, exp, frame, hist, conc>>

\* a call of c4doc_loadRevisionBody
LoadRevisionBody(readBody, status) ==
    /\ ~crashed
    /\ idoc.open
    /\ ~Dangling(idoc)
    /\ readBody # "body" => (idoc.selectedRev # NoRev /\ idoc.exposed.body = "null")
    /\ LET r == c4doc_loadRevisionBody(idoc, readBody, status)
       IN  /\ idoc' = r.doc
           /\ last' = CursorCall("loadBody", r)
    /\ UNCHANGED <<db, crashed, now, seqs, denum, exp, frame, hist, conc>>

\* a call that reads the revision under the cursor after prune has removed
\* it: the read is of freed or shifted storage, so the process is aborted
\* (alias = NoRev) or the cursor is taken for another revision of the tree
DanglingRead(alias) ==
    /\ ~crashed
    /\ idoc.open
    /\ Dangling(idoc)
    /\ alias # NoRev => HasRev(idoc.revs, alias)
    /\ crashed' = (alias = NoRev)
    /\ idoc' = IF alias = NoRev THEN idoc ELSE [idoc EXCEPT !.selectedRev = alias]
    /\ last' = DocumentCall
    /\ UNCHANGED <<db, now, seqs, denum, exp, frame, hist, conc>>

NextRev ==
    \/ db.transactionLevel = 0 /\ Begin(FALSE)
    \/ \E id \in PreDocIDs : DocGet(id)
    \/ DocFree
    \/ \E revID \in TreeRevIDs \cup {NoRev} : SelectRevision(revID)
    \/ SelectCurrentRevision
    \/ SelectParentRevision
    \/ SelectNextRevision
    \/ \E includeDeleted \in BOOLEAN, withBody \in BOOLEAN,
          readBody \in ReadBodyOutcomes, status \in ReadFailures :
          \E nullNext \in NullNexts(idoc.revs) :
              SelectNextLeafRevision(includeDeleted, withBody, readBody, status,
                                     nullNext)
    \/ \E readBody \in ReadBodyOutcomes, status \in ReadFailures :
          LoadRevisionBody(readBody, status)
    \/ \E revID \in TreeRevIDs, deleted \in BOOLEAN, allowConflict \in BOOLEAN :
          InsertRevision(revID, deleted, allowConflict)
    \/ \E revIDs \in TreeHistories, deleted \in BOOLEAN :
          InsertRevisionWithHistory(revIDs, deleted)
    \/ \E maxRevTreeDepth \in SaveDepths : Save(maxRevTreeDepth, FALSE)
    \/ \E alias \in TreeRevIDs \cup {NoRev} : DanglingRead(alias)

SpecRev == Init /\ [][NextRev]_vars

\* the leaves of a tree that are not deleted
LiveLeaves(revs) == {l \in Leaves(revs) : ~l.deleted}

TreeIDs(revs) == {r.revID : r \in revs}

----------------------------------------------------------------------------
(* The changes feed: c4db_enumerateChanges and c4enum_nextDocument *)

\* C4SequenceNumber is uint64_t; the model keeps the wrap-around with a
\* width of SeqBits bits
SeqBits == 3

UINT64_MAX == 2 ^ SeqBits - 1

\* the sequences the documents of the drawn stores were saved at
MaxSequence == 3

FDB_RESULT_SUCCESS == 0

ChangeDocIDs == {<<97>>, <<98>>, <<99>>}

\* the documents of the drawn stores: one revision, live or deleted
ChangeRecords ==
    {DocRecord({NewRevision([gen |-> 1, digest |-> 1], NoRev, deleted)}) :
        deleted \in BOOLEAN}

\* the documents `ids` in ascending order of their sequence
RECURSIVE SortBySequence(_, _)
SortBySequence(ids, sq) ==
    IF ids = {} THEN <<>>
    ELSE LET first == CHOOSE k \in ids : \A j \in ids : sq[k] <= sq[j]
         IN  <<first>> \o SortBySequence(ids \ {first}, sq)

\* DocEnumerator(store, start, end, options) by sequence, ascending
bySequenceRange(store, sq, start, end, options) ==
    SortBySequence(
        {k \in DefaultEnumerator(store, options.includeDeleted) :
            /\ sq[k] >= start
            /\ sq[k] < end \/ (options.inclusiveEnd /\ sq[k] = end)},
        sq)

\* c4db_enumerateChanges: the enumerator starts at since+1, computed in
\* C4SequenceNumber
c4db_enumerateChanges(d, sq, since) ==
    LET options == [inclusiveEnd |-> TRUE, includeDeleted |-> FALSE]
    IN  [NoDocEnumerator EXCEPT
            !.open = TRUE,
            !.since = since,
            !.e = bySequenceRange(Visible(d)[DefaultStore], sq,
                                  (since + 1) % (2 ^ SeqBits), UINT64_MAX, options)]

\* c4enum_nextDocument: a new C4DocumentInternal of the next document, or
\* NULL and recordError(FDB_RESULT_SUCCESS) at the end
c4enum_nextDocument(d, x) ==
    IF x.e # <<>>
    THEN [enum |-> [x EXCEPT !.e = Tail(x.e),
                             !.yielded = Append(x.yielded, Head(x.e))],
          doc |-> c4doc_get(d, Head(x.e))]
    ELSE [enum |-> [x EXCEPT !.done = TRUE,
                             !.error = ForestDBError(FDB_RESULT_SUCCESS)],
          doc |-> NoDocument]

\* the default store holds some documents, each saved at its own sequence
InitChanges ==
    /\ \E ids \in SUBSET ChangeDocIDs :
          /\ \E store \in [ids -> ChangeRecords] :
                db = [NewDatabase EXCEPT !.stores[DefaultStore] = store]
          /\ seqs \in {sq \in [ids -> 1..MaxSequence] :
                          \A j, k \in ids : j # k => sq[j] # sq[k]}
    /\ crashed = FALSE
    /\ now = 1
    /\ exp = NoEnumerator
    /\ frame = NoFrame
    /\ last = NoCall
    /\ hist = NoHist
    /\ conc = NoThreads
    /\ idoc = NoDocument
    /\ denum = NoDocEnumerator

\* a call of c4db_enumerateChanges
EnumerateChanges(since) ==
    /\ ~crashed
    /\ ~denum.open
    /\ denum' = c4db_enumerateChanges(db, seqs, since)
    /\ UNCHANGED <<db, crashed, now, exp, frame, last, hist, conc, idoc, seqs>>

\* a call of c4enum_nextDocument; the caller has freed the document of the
\* call before
NextDocument ==
    /\ ~crashed
    /\ denum.open
    /\ ~denum.done
    /\ ~idoc.open
    /\ LET r == c4enum_nextDocument(db, denum)
       IN  /\ denum' = r.enum
           /\ idoc' = r.doc
    /\ UNCHANGED <<db, crashed, now, exp, frame, last, hist, conc, seqs>>

\* a call of c4enum_free
EnumFree ==
    /\ ~crashed
    /\ denum.open
    /\ denum' = NoDocEnumerator
    /\ UNCHANGED <<db, crashed, now, exp, frame, last, hist, conc, idoc, seqs>>

NextChanges ==
    \/ \E since \in 0..UINT64_MAX : EnumerateChanges(since)
    \/ NextDocument
    \/ DocFree
    \/ EnumFree

SpecChanges == InitChanges /\ [][NextChanges]_vars

\* the live documents saved after `since`, in ascending order of sequence
ChangesSince(since) ==
    SortBySequence({k \in DOMAIN db.stores[DefaultStore] :
                       /\ seqs[k] > since
                       /\ ~db.stores[DefaultStore][k].meta.deleted},
                   seqs)

\* C14: for every since of the whole range of C4SequenceNumber, the maximum
\* included, the enumerator of c4db_enumerateChanges(since) yields the
\* documents whose sequence is greater than since and whose current revision
\* is not deleted, in ascending order of sequence, and then
\* c4enum_nextDocument returns NULL with the success code.
C14_ChangesAfterSince ==
    denum.open =>
        LET expected == ChangesSince(denum.since)
            n == Len(denum.yielded)
        IN  /\ n <= Len(expected)
            /\ denum.yielded = SubSeq(expected, 1, n)
            /\ denum.done => /\ denum.yielded = expected
                             /\ denum.error.code = FDB_RESULT_SUCCESS

\* the first revision after the selected one in next() order that is a leaf
\* and, unless includeDeleted, not deleted; NoRev if there is none
FirstLeafAfter(doc, includeDeleted) ==
    LET order == PreOrder(doc.revs)
        start == IndexOf(doc.revs, doc.selectedRev)
        matches == {i \in (start + 1)..Len(order) :
                       /\ isLeaf(doc.revs, order[i])
                       /\ includeDeleted \/ ~GetRev(doc.revs, order[i]).deleted}
    IN  IF matches = {} THEN NoRev
        ELSE order[CHOOSE i \in matches : \A j \in matches : i <= j]

\* what C15 says of the selection: the first match is selected and exposed;
\* with no match nothing is selected, the public selectedRev is cleared,
\* HTTP 404 is recorded and false returned; the starting revision is never
\* selected and the tree is not changed
SelectsFirstLeafAfter(doc, includeDeleted, r) ==
    LET first == FirstLeafAfter(doc, includeDeleted)
    IN  /\ r.status = "ok"
        /\ r.doc.revs = doc.revs
        /\ r.doc.selectedRev = first
        /\ r.doc.selectedRev # doc.selectedRev
        /\ r.doc.exposed.revID = first
        /\ first = NoRev => /\ ~r.ret
                            /\ r.error = HTTPError(404)
                            /\ r.doc.exposed = NoSelection
        /\ first # NoRev => /\ r.doc.exposed.leaf
                            /\ r.doc.exposed.deleted = GetRev(doc.revs, first).deleted
                            /\ r.doc.exposed.new = (first \in doc.news)

\* C15 as stated: with a revision of the tree selected,
\* c4doc_selectNextLeafRevision selects the first revision after it in
\* next() order that is a leaf and, unless includeDeleted, not deleted, and
\* returns true; when there is none it leaves nothing selected, records
\* HTTP 404 and returns false.
C15_NextLeafReturnsTrue ==
    (~crashed /\ idoc.open /\ idoc.selectedRev # NoRev /\ ~Dangling(idoc)) =>
    \A includeDeleted \in BOOLEAN, withBody \in BOOLEAN,
       readBody \in ReadBodyOutcomes, status \in ReadFailures :
        LET r == c4doc_selectNextLeafRevision(idoc, includeDeleted, withBody,
                                              readBody, status, NoNullNext)
        IN  /\ SelectsFirstLeafAfter(idoc, includeDeleted, r)
            /\ FirstLeafAfter(idoc, includeDeleted) # NoRev =>
                   r.ret /\ r.error = NoError

\* C15 amended: the selection is as stated, and with a match the call
\* returns true unless withBody is set and the body of the revision selected
\* cannot be loaded: then it returns false with HTTP 410 (body compacted
\* away) or the engine's error, the revision staying selected.
C15_NextLeafUnlessBodyFails ==
    (~crashed /\ idoc.open /\ idoc.selectedRev # NoRev /\ ~Dangling(idoc)) =>
    \A includeDeleted \in BOOLEAN, withBody \in BOOLEAN,
       readBody \in ReadBodyOutcomes, status \in ReadFailures :
        LET r == c4doc_selectNextLeafRevision(idoc, includeDeleted, withBody,
                                              readBody, status, NoNullNext)
            first == FirstLeafAfter(idoc, includeDeleted)
            loads == first \in idoc.inline \/ readBody = "body"
        IN  /\ SelectsFirstLeafAfter(idoc, includeDeleted, r)
            /\ first # NoRev =>
                  /\ r.ret = (~withBody \/ loads)
                  /\ r.ret => r.error = NoError
                  /\ ~r.ret => r.error = IF readBody = "gone" THEN HTTPError(410)
                                         ELSE ForestDBError(status)
                  /\ (withBody /\ r.ret) => r.doc.exposed.body # "null"

\* C15: c4doc_selectNextLeafRevision with withBody returned false with
\* HTTP 410 and left selected a live leaf that comes after a deleted leaf of
\* the same parent.
C15_Witness ==
    /\ last.op = "selectNextLeaf" /\ ~last.ret /\ last.count = 410
    /\ idoc.open /\ idoc.exposed.revID = idoc.selectedRev /\ idoc.exposed.leaf
    /\ ~idoc.exposed.deleted
    /\ \E r \in idoc.revs, q \in idoc.revs :
          /\ r.revID = idoc.selectedRev /\ q.parent = r.parent /\ q.deleted
          /\ isLeaf(idoc.revs, q.revID)
          /\ IndexOf(idoc.revs, q.revID) < IndexOf(idoc.revs, r.revID)

\* C16: c4doc_loadRevisionBody with a revision of the tree selected returns
\* true exactly when the body is already exposed or readBody delivers it,
\* and then the exposed body is that body; when readBody finds the body
\* compacted away it returns false with HTTP 410; in every case the cursor,
\* the tree, the flags and the rest of the handle stay as they were, and a
\* further call after a success returns true without calling readBody.
C16_LoadBodyIffAvailable ==
    (~crashed /\ idoc.open /\ idoc.selectedRev # NoRev /\ ~Dangling(idoc)) =>
    \A readBody \in ReadBodyOutcomes, status \in ReadFailures :
        LET r == c4doc_loadRevisionBody(idoc, readBody, status)
            held == idoc.exposed.body # "null"
        IN  /\ r.ret = (held \/ readBody = "body")
            /\ r.read = ~held
            /\ [r.doc EXCEPT !.exposed.body = idoc.exposed.body] = idoc
            /\ r.ret => /\ r.error = NoError
                        /\ r.doc.exposed.body = IF held THEN idoc.exposed.body
                                                ELSE "loaded"
            /\ ~r.ret => r.doc = idoc
            /\ (~held /\ readBody = "gone") => r.error = HTTPError(410)
            /\ (~held /\ readBody = "throws") => r.error = ForestDBError(status)
            /\ r.ret => \A again \in ReadBodyOutcomes :
                            LET r2 == c4doc_loadRevisionBody(r.doc, again, status)
                            IN  r2.ret /\ ~r2.read /\ r2.doc = r.doc

\* C16: c4doc_loadRevisionBody returned true and the body it read is exposed
\* for the selected revision, whose body is not inline.
C16_Witness ==
    /\ last.op = "loadBody" /\ last.ret
    /\ idoc.open /\ idoc.selectedRev # NoRev /\ ~Dangling(idoc)
    /\ idoc.selectedRev \notin idoc.inline
    /\ idoc.exposed.body = "loaded"

\* C17: when c4db_beginTransaction has returned false because creating the
\* Transaction threw, the nesting depth and inTransaction() are what they
\* were before the call.
C17_FailedBeginChangesNothing ==
    (last.op = "begin" /\ ~last.ret) =>
        /\ db.transactionLevel = last.level
        /\ inTransaction(db) = (last.level > 0)

\* C18: when c4raw_put or c4exp_purgeExpired has returned, whether it
\* succeeded or a step of it failed, the nesting depth is what it was before
\* the call.
C18_OwnFrameClosed ==
    (last.op \in {"put", "purge"} /\ ~crashed) =>
        db.transactionLevel = last.level

\* C19: c4raw_put returns true when the set or delete was staged and its
\* frame ended without a failure, and false only when a failure was caught.
C19_PutReturnsSuccess ==
    (last.op = "put" /\ ~crashed) => (last.ret <=> last.status = "ok")

\* C20: after any calls of the select functions, c4doc_insertRevision,
\* c4doc_insertRevisionWithHistory and c4doc_save on a document, either no
\* revision is selected or the selected one is a revision of the tree, and
\* the public selectedRev shows the revID, the flags and the sequence of
\* that revision.
C20_SelectionInTree ==
    (idoc.open /\ ~crashed /\ idoc.selectedRev # NoRev) =>
        /\ HasRev(idoc.revs, idoc.selectedRev)
        /\ idoc.exposed.revID = idoc.selectedRev
        /\ idoc.exposed.deleted = GetRev(idoc.revs, idoc.selectedRev).deleted
        /\ idoc.exposed.leaf = isLeaf(idoc.revs, idoc.selectedRev)
        /\ idoc.exposed.new = (idoc.selectedRev \in idoc.news)

\* C21: with no revision selected, c4doc_selectParentRevision,
\* c4doc_selectNextRevision and c4doc_selectNextLeafRevision return false and
\* leave no revision selected, without reading through the absent selection.
C21_CursorSafeWithoutSelection ==
    (~crashed /\ idoc.open /\ idoc.selectedRev = NoRev) =>
        /\ ~c4doc_selectParentRevision(idoc).ret
        /\ c4doc_selectParentRevision(idoc).doc.selectedRev = NoRev
        /\ ~c4doc_selectNextRevision(idoc).ret
        /\ c4doc_selectNextRevision(idoc).doc.selectedRev = NoRev
        /\ \A includeDeleted \in BOOLEAN, withBody \in BOOLEAN,
              readBody \in ReadBodyOutcomes, status \in ReadFailures,
              nullNext \in NullNexts(idoc.revs) :
              LET r == c4doc_selectNextLeafRevision(idoc, includeDeleted, withBody,
                                                    readBody, status, nullNext)
              IN  /\ r.status = "ok"
                  /\ ~r.ret
                  /\ r.doc.selectedRev = NoRev

====
